---- MODULE Spec2Model ----
(***************************************************************************)
(* Model of the water-shader repository.                                   *)
(*                                                                         *)
(*   Spec       main.js + ocean.js: bootstrap, the animate frame callback, *)
(*              the window resize listener, the raymarched Ocean            *)
(*              controller and the fragment coordinates the shader sees.    *)
(*   FairSpec   Spec with the browser's fairness to handlers.               *)
(*   SceneSpec  the SceneSetup controller: init, updateSunPosition, the     *)
(*              per-frame update and the water material's compile hook.     *)
(*   TraceSpec  fragment.glsl heightMapTracing, one loop iteration a step,  *)
(*              over a family of rays and sea surfaces.                     *)
(*                                                                         *)
(* Times are counted in ticks of 1/120 s.  Lengths are CSS pixels, the      *)
(* drawing buffer is in device pixels.  A ratio such as camera.aspect is    *)
(* kept as a fraction in lowest terms.  Sines, cosines and vector           *)
(* components are in thousandths, rounded to the nearest.  Shader source    *)
(* is a sequence of lexemes; white space is not modelled.                   *)
(***************************************************************************)
EXTENDS Integers, Sequences, FiniteSets, TLC

\* ------------------------------------------------------------------ bounds
MaxDim == 2        \* window inner width/height range over 1..MaxDim
MaxRatio == 2      \* window.devicePixelRatio ranges over 1..MaxRatio
MaxNow == 3        \* performance.now() stops advancing at this many ticks
MaxWall == 4       \* SceneSetup frames stop when this many ticks have passed
MaxSrcLen == 2     \* lexemes in the water material's vertex shader

\* -------------------------------------------------------- program constants
NUM_STEPS == 8     \* fragment.glsl: const int NUM_STEPS
FarT == 1000       \* fragment.glsl heightMapTracing: float tx = 1000.0

\* ------------------------------------------------------------ arithmetic
RECURSIVE Gcd(_, _)
Gcd(a, b) == IF b = 0 THEN a ELSE Gcd(b, a % b)

\* the quotient w / h of main.js:17 and main.js:97, in lowest terms
Ratio(w, h) == <<w \div Gcd(w, h), h \div Gcd(w, h)>>

\* Math.sin(time) * 5 of main.js:82 in thousandths, time in ticks of 1/120 s
SinTimes5(t) ==
    CASE t = 0 -> 0
      [] t = 1 -> 42
      [] t = 2 -> 83
      [] t = 3 -> 125
      [] t = 4 -> 167
      [] t = 5 -> 208
      [] OTHER -> 250

\* ------------------------------------------------------------------ state
VARIABLES
    phase,          \* "load" before main.js has run, "running" after
    window,         \* [innerWidth, innerHeight, devicePixelRatio]
    resizePending,  \* the browser has a resize event to dispatch
    now,            \* performance.now(), in ticks
    clock,          \* THREE.Clock: [running, oldTime, elapsedTime]
    camera,         \* [aspect, projection]: the aspect field and the aspect
                    \* baked into the projection matrix
    renderer,       \* [pixelRatio, width, height, bufferWidth, bufferHeight]
    scene,          \* scene.children, in insertion order
    ocean,          \* Ocean: [material, mesh, uTime, uResolution]
    sphereY,        \* sphere.position.y, thousandths
    rafPending,     \* callbacks in the animation frame callback list
    rendered,       \* what the last renderer.render call drew
    frameLog,       \* the calls of the last animate run, in order
    lastEvent,      \* the handler that ran last
    resizeHandled   \* the resize listener has run at least once

mainVars == <<phase, window, resizePending, now, clock, camera, renderer,
              scene, ocean, sphereY, rafPending, rendered, frameLog,
              lastEvent, resizeHandled>>

VARIABLES
    water,          \* SceneSetup.water: [isNull, time, sunDirection]
    waterShader,    \* water.material.userData.shader:
                    \* [isNull, uTime, vertexShader]
    sky,            \* SceneSetup.sky: [isNull, sunPosition]
    sun,            \* SceneSetup.sun
    environment,    \* scene.environment: [isNull, litBy]
    setupChildren,  \* children of the scene given to SceneSetup
    vertexSource,   \* water.material.vertexShader as the library wrote it
    wall,           \* wall-clock time over the frames since init, ticks
    sunArgs,        \* [called, elevation, azimuth] of the last
                    \* updateSunPosition
    lastCall,       \* [op, error] of the last call
    updateCalls     \* calls of update() since the compile hook last ran (or
                    \* since init made the material)

sceneVars == <<water, waterShader, sky, sun, environment, setupChildren,
               vertexSource, wall, sunArgs, lastCall, updateCalls>>

VARIABLES
    ray,            \* the ray and the sea under it: [oriY, dirY, amp, period,
                    \* phase], heights in hundredths
    tm, tx,         \* heightMapTracing: the near and far end of the bracket
    hm, hx,         \* the heights at tm and tx
    tmid,           \* the last point tried
    steps,          \* loop iterations done (the loop counter i)
    p,              \* the out parameter: [written, t]
    ret,            \* the value returned
    pRead,          \* the value of p that main goes on with: [read, t]
    pc              \* "entry", "loop", "done", "shaded"

traceVars == <<ray, tm, tx, hm, hx, tmid, steps, p, ret, pRead, pc>>

vars == <<mainVars, sceneVars, traceVars>>

notMain == <<sceneVars, traceVars>>
notScene == <<mainVars, traceVars>>
notTrace == <<mainVars, sceneVars>>

Dims == 1..MaxDim

NoRender == [valid |-> FALSE, uTime |-> 0, timeRead |-> 0,
             uResolution |-> <<0, 0>>, inner |-> <<0, 0>>,
             aspect |-> <<0, 0>>, projection |-> <<0, 0>>,
             size |-> <<0, 0>>,
             buffer |-> <<0, 0>>, children |-> <<>>]

\* ------------------------------------------------------------ THREE.Clock
\* new THREE.Clock(): autoStart, not yet running
NewClock == [running |-> FALSE, oldTime |-> 0, elapsedTime |-> 0]

\* clock.getElapsedTime(): the first call starts the clock and yields 0,
\* every later call adds the time since the previous call
GetElapsedTime(c, t) ==
    IF ~c.running
    THEN [running |-> TRUE, oldTime |-> t, elapsedTime |-> 0]
    ELSE [running |-> TRUE, oldTime |-> t,
          elapsedTime |-> c.elapsedTime + (t - c.oldTime)]

\* ------------------------------------------------------------ the renderer
\* renderer.setSize(w, h): logical size, and canvas size floor(w * ratio)
SetSize(r, w, h) ==
    [r EXCEPT !.width = w, !.height = h,
              !.bufferWidth = w * r.pixelRatio,
              !.bufferHeight = h * r.pixelRatio]

\* renderer.setPixelRatio(v): stores the ratio and re-applies the size
SetPixelRatio(r, v) ==
    SetSize([r EXCEPT !.pixelRatio = v], r.width, r.height)

\* new THREE.WebGLRenderer(): ratio 1 on the default 300 x 150 canvas
NewRenderer == [pixelRatio |-> 1, width |-> 300, height |-> 150,
                bufferWidth |-> 300, bufferHeight |-> 150]

\* ----------------------------------------------------------------- camera
\* new THREE.PerspectiveCamera(fov, aspect, ...): the constructor updates
\* the projection matrix
NewCamera(aspect) == [aspect |-> aspect, projection |-> aspect]

UpdateProjectionMatrix(c) == [c EXCEPT !.projection = c.aspect]

\* ------------------------------------------------------------------ Ocean
\* Ocean.constructor up to the call of init
OceanConstructor == [material |-> "null", mesh |-> "null", uTime |-> 0,
                     uResolution |-> <<0, 0>>]

\* Ocean.init: the shader material with its two uniforms, and the quad
OceanInit(o, win) ==
    [o EXCEPT !.material = "ShaderMaterial",
              !.uTime = 0,
              !.uResolution = <<win.innerWidth, win.innerHeight>>,
              !.mesh = "oceanQuad"]

\* Ocean.update with "+=" for "=": the uniform accumulates
OceanUpdate_Accumulate(o, time) ==
    IF o.material # "null" THEN [o EXCEPT !.uTime = o.uTime + time] ELSE o

\* Ocean.update(time)
OceanUpdate(o, time) ==
    IF o.material # "null" THEN [o EXCEPT !.uTime = time] ELSE o

\* Ocean.resize that leaves the uniform as it was
OceanResize_Stale(o, win) == o

\* Ocean.resize()
OceanResize(o, win) ==
    IF o.material # "null"
    THEN [o EXCEPT !.uResolution = <<win.innerWidth, win.innerHeight>>]
    ELSE o

\* scene.add that does not detect a child added again
SceneAdd_Twice(children, child) == Append(Append(children, child), child)

\* scene.add(child)
SceneAdd(children, child) == Append(children, child)

\* --------------------------------------------------------------- animate
\* animate that does not register its successor
RequestAnimationFrame_Dropped(n) == n

\* window.requestAnimationFrame(animate): one more callback in the list
RequestAnimationFrame(n) == n + 1

\* renderer.render(scene, camera): what the frame draws
Render(o, cam, ren, children, win, time) ==
    [valid |-> TRUE, uTime |-> o.uTime, timeRead |-> time,
     uResolution |-> o.uResolution,
     inner |-> <<win.innerWidth, win.innerHeight>>,
     aspect |-> cam.aspect,
     projection |-> cam.projection,
     size |-> <<ren.width, ren.height>>,
     buffer |-> <<ren.bufferWidth, ren.bufferHeight>>,
     children |-> children]

\* animate that renders before it updates the ocean
AnimateBody_RenderFirst(raf, clk, oc, cam, ren, children) ==
    LET raf1 == RequestAnimationFrame(raf)
        clk1 == GetElapsedTime(clk, now)
        time == clk1.elapsedTime
        oc1 == OceanUpdate(oc, time)
    IN  /\ rafPending' = raf1
        /\ clock' = clk1
        /\ ocean' = oc1
        /\ sphereY' = SinTimes5(time)
        /\ rendered' = Render(oc, cam, ren, children, window, time)
        /\ frameLog' = <<"requestAnimationFrame", "clock.getElapsedTime",
                         "renderer.render", "ocean.update",
                         "sphere.position.y">>

\* the body of animate, run on the state (raf, clk, oc) it finds
AnimateBody(raf, clk, oc, cam, ren, children) ==
    LET raf1 == RequestAnimationFrame(raf)
        clk1 == GetElapsedTime(clk, now)
        time == clk1.elapsedTime
        oc1 == OceanUpdate(oc, time)
    IN  /\ rafPending' = raf1
        /\ clock' = clk1
        /\ ocean' = oc1
        /\ sphereY' = SinTimes5(time)
        /\ rendered' = Render(oc1, cam, ren, children, window, time)
        /\ frameLog' = <<"requestAnimationFrame", "clock.getElapsedTime",
                         "ocean.update", "sphere.position.y",
                         "renderer.render">>

\* main.js from top to bottom: camera, renderer, axis helper, sphere, ocean,
\* clock, the first call of animate, and the resize listener
Bootstrap ==
    /\ phase = "load"
    /\ LET cam == NewCamera(Ratio(window.innerWidth, window.innerHeight))
           ren == SetSize(SetPixelRatio(NewRenderer,
                                        window.devicePixelRatio),
                          window.innerWidth, window.innerHeight)
           sc1 == SceneAdd(SceneAdd(<<>>, "axis"), "sphere")
           oc  == OceanInit(OceanConstructor, window)
           sc2 == SceneAdd(sc1, oc.mesh)
       IN  /\ camera' = cam
           /\ renderer' = ren
           /\ scene' = sc2
           /\ AnimateBody(0, NewClock, oc, cam, ren, sc2)
    /\ phase' = "running"
    /\ lastEvent' = "bootstrap"
    /\ UNCHANGED <<window, resizePending, now, resizeHandled>>
    /\ UNCHANGED notMain

\* the browser runs the frame callback: it takes the callback out of the
\* list and calls it.  The browser dispatches a pending resize event before
\* it runs the frame callbacks of the same rendering update.
animate ==
    /\ phase = "running"
    /\ rafPending > 0
    /\ ~resizePending
    /\ AnimateBody(rafPending - 1, clock, ocean, camera, renderer, scene)
    /\ lastEvent' = "animate"
    /\ UNCHANGED <<phase, window, resizePending, now, camera, renderer,
                   scene, resizeHandled>>
    /\ UNCHANGED notMain

\* a listener that forgets the camera
ResizeListener_NoCamera ==
    /\ phase = "running"
    /\ resizePending
    /\ renderer' = SetSize(renderer, window.innerWidth, window.innerHeight)
    /\ ocean' = OceanResize(ocean, window)
    /\ resizePending' = FALSE
    /\ lastEvent' = "resize"
    /\ resizeHandled' = TRUE
    /\ UNCHANGED <<phase, window, now, clock, camera, scene, sphereY,
                   rafPending, rendered, frameLog>>
    /\ UNCHANGED notMain

\* the listener registered at main.js:96
ResizeListener ==
    /\ phase = "running"
    /\ resizePending
    /\ LET cam1 == [camera EXCEPT
                      !.aspect = Ratio(window.innerWidth, window.innerHeight)]
       IN  camera' = UpdateProjectionMatrix(cam1)
    /\ renderer' = SetSize(renderer, window.innerWidth, window.innerHeight)
    /\ ocean' = OceanResize(ocean, window)
    /\ resizePending' = FALSE
    /\ lastEvent' = "resize"
    /\ resizeHandled' = TRUE
    /\ UNCHANGED <<phase, window, now, clock, scene, sphereY, rafPending,
                   rendered, frameLog>>
    /\ UNCHANGED notMain

\* the user resizes the window: new inner size, resize event queued
WindowResized ==
    /\ phase = "running"
    /\ \E w \in Dims, h \in Dims :
          /\ <<w, h>> # <<window.innerWidth, window.innerHeight>>
          /\ window' = [window EXCEPT !.innerWidth = w, !.innerHeight = h]
    /\ resizePending' = TRUE
    /\ lastEvent' = "windowResized"
    /\ UNCHANGED <<phase, now, clock, camera, renderer, scene, ocean,
                   sphereY, rafPending, rendered, frameLog, resizeHandled>>
    /\ UNCHANGED notMain

\* time passes
Tick ==
    /\ now < MaxNow
    /\ \E d \in 1..(MaxNow - now) : now' = now + d
    /\ lastEvent' = "tick"
    /\ UNCHANGED <<phase, window, resizePending, clock, camera, renderer,
                   scene, ocean, sphereY, rafPending, rendered, frameLog,
                   resizeHandled>>
    /\ UNCHANGED notMain

MainInit ==
    /\ phase = "load"
    /\ window \in [innerWidth : Dims, innerHeight : Dims,
                   devicePixelRatio : 1..MaxRatio]
    /\ resizePending = FALSE
    /\ now \in 0..1
    /\ clock = NewClock
    /\ camera = NewCamera(<<0, 0>>)
    /\ renderer = NewRenderer
    /\ scene = <<>>
    /\ ocean = OceanConstructor
    /\ sphereY = 0
    /\ rafPending = 0
    /\ rendered = NoRender
    /\ frameLog = <<>>
    /\ lastEvent = "none"
    /\ resizeHandled = FALSE

\* the state of main.js before any of it has run, for the other
\* specifications
MainIdle ==
    /\ phase = "load"
    /\ window = [innerWidth |-> 1, innerHeight |-> 1, devicePixelRatio |-> 1]
    /\ resizePending = FALSE
    /\ now = 0
    /\ clock = NewClock
    /\ camera = NewCamera(<<0, 0>>)
    /\ renderer = NewRenderer
    /\ scene = <<>>
    /\ ocean = OceanConstructor
    /\ sphereY = 0
    /\ rafPending = 0
    /\ rendered = NoRender
    /\ frameLog = <<>>
    /\ lastEvent = "none"
    /\ resizeHandled = FALSE

\* ============================================================ SceneSetup
\* a / b rounded to the nearest integer, b > 0
RoundDiv(a, b) ==
    IF a >= 0 THEN (2 * a + b) \div (2 * b)
    ELSE -((2 * (-a) + b) \div (2 * b))

\* the product of two numbers given in thousandths, in thousandths
MulMilli(a, b) == RoundDiv(a * b, 1000)

\* the largest n in lo..hi with n * n <= s, by bisection
RECURSIVE SqrtBetween(_, _, _)
SqrtBetween(s, lo, hi) ==
    IF lo >= hi THEN lo
    ELSE LET mid == (lo + hi + 1) \div 2
         IN  IF mid * mid <= s THEN SqrtBetween(s, mid, hi)
             ELSE SqrtBetween(s, lo, mid - 1)

\* Math.sqrt(s), rounded to the nearest integer (46340 is the largest root
\* of a 32-bit s)
ISqrt(s) ==
    LET n == SqrtBetween(s, 0, IF s < 46340 THEN s ELSE 46340)
    IN  IF s - n * n > n THEN n + 1 ELSE n

\* Math.sin of an angle in the first quadrant, in thousandths
SinTable(d) ==
    CASE d = 0 -> 0
      [] d = 2 -> 35
      [] d = 30 -> 500
      [] d = 60 -> 866
      [] d = 88 -> 999
      [] d = 90 -> 1000

\* Math.sin(THREE.MathUtils.degToRad(d)), in thousandths
SinMilli(d) ==
    LET r == d % 360
    IN  IF r <= 90 THEN SinTable(r)
        ELSE IF r <= 180 THEN SinTable(180 - r)
        ELSE IF r <= 270 THEN -SinTable(r - 180)
        ELSE -SinTable(360 - r)

\* Math.cos(THREE.MathUtils.degToRad(d)), in thousandths
CosMilli(d) == SinMilli(d + 90)

\* the angles updateSunPosition is called with
Elevations == {-2, 2, 30, 90}
Azimuths == {0, 90, 180}

\* the frame durations of a 120 Hz, a 60 Hz and a 30 Hz display, in ticks
FrameTicks == {1, 2, 4}

\* 1.0 / 60.0 seconds, in ticks of 1/120 s
UpdateStep == 120 \div 60

ZeroVector == <<0, 0, 0>>

\* Vector3.setFromSphericalCoords with the two horizontal axes exchanged
SetFromSphericalCoords_SwappedAxes(radius, phi, theta) ==
    LET sinPhiRadius == SinMilli(phi) * radius
    IN  <<MulMilli(sinPhiRadius, CosMilli(theta)),
          CosMilli(phi) * radius,
          MulMilli(sinPhiRadius, SinMilli(theta))>>

\* Vector3.setFromSphericalCoords(radius, phi, theta), angles in degrees
SetFromSphericalCoords(radius, phi, theta) ==
    LET sinPhiRadius == SinMilli(phi) * radius
    IN  <<MulMilli(sinPhiRadius, SinMilli(theta)),
          CosMilli(phi) * radius,
          MulMilli(sinPhiRadius, CosMilli(theta))>>

\* the squared length of a vector in thousandths, in millionths
LengthSq(v) == v[1] * v[1] + v[2] * v[2] + v[3] * v[3]

\* Vector3.normalize(): divides by the length, or by 1 when the length is 0
Normalize(v) ==
    LET len == ISqrt(LengthSq(v))
    IN  IF len = 0 THEN v
        ELSE <<RoundDiv(1000 * v[1], len), RoundDiv(1000 * v[2], len),
               RoundDiv(1000 * v[3], len)>>

\* ------------------------------------------------------- shader source text
BeginVertex == "#include <begin_vertex>"

\* what the library's vertex shader is made of
SourceLexemes == {BeginVertex, "#include <fog_vertex>", "gl_Position"}

RECURSIVE SeqsUpTo(_, _)
SeqsUpTo(S, n) ==
    IF n = 0 THEN {<<>>}
    ELSE LET shorter == SeqsUpTo(S, n - 1)
         IN  shorter \cup {Append(q, x) : q \in shorter, x \in S}

VertexSources == SeqsUpTo(SourceLexemes, MaxSrcLen) \ {<<>>}

\* the text put in front of the vertex shader (part_000:78-97)
GerstnerPrelude == <<"uniform float uTime", "varying float vElevation",
                     "vec3 gerstnerWave">>

\* the text that stands for the include after the patch (part_000:102-128)
DisplacementBlock == <<"wave1..wave4", "totalDisplacement", "giantSwell",
                       "transformed += totalDisplacement",
                       "vElevation = transformed.z">>

\* String.prototype.replace(pattern, replacement) with a string pattern: the
\* first occurrence is replaced, a string without one is returned as it is
StringReplace(text, pattern, replacement) ==
    IF \E i \in 1..Len(text) : text[i] = pattern
    THEN LET i == CHOOSE k \in 1..Len(text) :
                    /\ text[k] = pattern
                    /\ \A j \in 1..(k - 1) : text[j] # pattern
         IN  SubSeq(text, 1, i - 1) \o replacement
               \o SubSeq(text, i + 1, Len(text))
    ELSE text

\* water.material.onBeforeCompile(shader): the shader object it leaves in
\* material.userData.shader
OnBeforeCompile(source) ==
    [isNull |-> FALSE,
     uTime |-> 0,
     vertexShader |->
        StringReplace(GerstnerPrelude \o source, BeginVertex,
                      <<BeginVertex>> \o DisplacementBlock)]

NoShader == [isNull |-> TRUE, uTime |-> 0, vertexShader |-> <<>>]

\* ------------------------------------------------------------- operations
\* updateSunPosition that builds the environment map before it touches the
\* sky, so that the map is replaced even when the call then throws
SunPositionBody_EnvironmentFirst(op, elevation, azimuth, w, k) ==
    LET phi == 90 - elevation
        theta == azimuth
        sun1 == SetFromSphericalCoords(1, phi, theta)
    IN  /\ sun' = sun1
        /\ sunArgs' = [called |-> TRUE, elevation |-> elevation,
                       azimuth |-> azimuth]
        /\ environment' = [isNull |-> FALSE, litBy |-> sun1]
        /\ IF k.isNull
           THEN /\ sky' = k
                /\ water' = w
                /\ lastCall' = [op |-> op, error |-> "TypeError"]
           ELSE /\ sky' = [k EXCEPT !.sunPosition = sun1]
                /\ water' = [w EXCEPT !.sunDirection = Normalize(sun1)]
                /\ lastCall' = [op |-> op, error |-> "none"]

\* the body of updateSunPosition(elevation, azimuth) on water w and sky k;
\* without a sky, this.sky.material throws after the sun vector is set
SunPositionBody(op, elevation, azimuth, w, k) ==
    LET phi == 90 - elevation
        theta == azimuth
        sun1 == SetFromSphericalCoords(1, phi, theta)
    IN  /\ sun' = sun1
        /\ sunArgs' = [called |-> TRUE, elevation |-> elevation,
                       azimuth |-> azimuth]
        /\ IF k.isNull
           THEN /\ sky' = k
                /\ water' = w
                /\ environment' = environment
                /\ lastCall' = [op |-> op, error |-> "TypeError"]
           ELSE /\ sky' = [k EXCEPT !.sunPosition = sun1]
                /\ water' = [w EXCEPT !.sunDirection = Normalize(sun1)]
                /\ environment' = [isNull |-> FALSE, litBy |-> sun1]
                /\ lastCall' = [op |-> op, error |-> "none"]

\* SceneSetup.init()
SceneInit ==
    /\ water.isNull
    /\ SunPositionBody("init", 2, 180,
                       [isNull |-> FALSE, time |-> 0,
                        sunDirection |-> ZeroVector],
                       [isNull |-> FALSE, sunPosition |-> ZeroVector])
    /\ setupChildren' = Append(Append(setupChildren, "water"), "sky")
    /\ wall' = 0
    /\ updateCalls' = 0
    /\ UNCHANGED <<waterShader, vertexSource>>
    /\ UNCHANGED notScene

\* SceneSetup.updateSunPosition(elevation, azimuth)
UpdateSunPosition ==
    /\ \E elevation \in Elevations, azimuth \in Azimuths :
          SunPositionBody("updateSunPosition", elevation, azimuth, water, sky)
    /\ UNCHANGED <<waterShader, setupChildren, vertexSource, wall,
                   updateCalls>>
    /\ UNCHANGED notScene

\* update() that advances the injected time twice
SceneUpdate_DoubleStep ==
    /\ \E d \in FrameTicks :
          /\ wall + d <= MaxWall
          /\ wall' = wall + d
    /\ IF ~water.isNull
       THEN /\ water' = [water EXCEPT !.time = water.time + UpdateStep]
            /\ IF ~waterShader.isNull
               THEN waterShader' =
                      [waterShader EXCEPT
                         !.uTime = waterShader.uTime + 2 * UpdateStep]
               ELSE waterShader' = waterShader
       ELSE UNCHANGED <<water, waterShader>>
    /\ lastCall' = [op |-> "update", error |-> "none"]
    /\ updateCalls' = updateCalls + 1
    /\ UNCHANGED <<sky, sun, environment, setupChildren, vertexSource,
                   sunArgs>>
    /\ UNCHANGED notScene

\* a frame of some duration passes and SceneSetup.update() is called
SceneUpdate ==
    /\ \E d \in FrameTicks :
          /\ wall + d <= MaxWall
          /\ wall' = wall + d
    /\ IF ~water.isNull
       THEN /\ water' = [water EXCEPT !.time = water.time + UpdateStep]
            /\ IF ~waterShader.isNull
               THEN waterShader' = [waterShader EXCEPT
                                      !.uTime = waterShader.uTime + UpdateStep]
               ELSE waterShader' = waterShader
       ELSE UNCHANGED <<water, waterShader>>
    /\ lastCall' = [op |-> "update", error |-> "none"]
    /\ updateCalls' = updateCalls + 1
    /\ UNCHANGED <<sky, sun, environment, setupChildren, vertexSource,
                   sunArgs>>
    /\ UNCHANGED notScene

\* the renderer compiles the water material and runs its compile hook
Compile ==
    /\ ~water.isNull
    /\ waterShader' = OnBeforeCompile(vertexSource)
    /\ lastCall' = [op |-> "compile", error |-> "none"]
    /\ updateCalls' = 0
    /\ UNCHANGED <<water, sky, sun, environment, setupChildren, vertexSource,
                   wall, sunArgs>>
    /\ UNCHANGED notScene

\* new SceneSetup(scene, renderer, camera)
SceneConstructed ==
    /\ water = [isNull |-> TRUE, time |-> 0, sunDirection |-> ZeroVector]
    /\ waterShader = NoShader
    /\ sky = [isNull |-> TRUE, sunPosition |-> ZeroVector]
    /\ sun = ZeroVector
    /\ environment = [isNull |-> TRUE, litBy |-> ZeroVector]
    /\ setupChildren = <<>>
    /\ wall = 0
    /\ sunArgs = [called |-> FALSE, elevation |-> 0, azimuth |-> 0]
    /\ lastCall = [op |-> "constructor", error |-> "none"]
    /\ updateCalls = 0

SceneIdle == SceneConstructed /\ vertexSource = <<BeginVertex>>

SceneStart == SceneConstructed /\ vertexSource \in VertexSources

SceneNext ==
    \/ SceneInit
    \/ UpdateSunPosition
    \/ SceneUpdate
    \/ Compile

\* ====================================================== heightMapTracing
\* Distances along the ray are whole numbers, heights are in hundredths.
Abs(x) == IF x < 0 THEN -x ELSE x

\* the rays and seas tried: the camera height 2.5 of main and two lower
\* ones, rays going down, level and up, and a flat, a low and a high sea
Rays == [oriY : {250, 0, -50}, dirY : {-50, -5, -1, 0, 1},
         amp : {0, 60, 150}, period : {7, 40}, phase : {0, 3}]

\* the height of the sea surface under the point at distance t: a wave
\* between 0 and r.amp
Sea(r, t) ==
    LET ph == (t + r.phase) % r.period
    IN  (r.amp * Abs(2 * ph - r.period)) \div r.period

\* map(ori + dir * t): the height of the ray's point above the sea
Map(r, t) == r.oriY + r.dirY * t - Sea(r, t)

\* mix(x, y, num / den) = x * (1 - a) + y * a, rounded down
Mix(x, y, num, den) ==
    IF den > 0 THEN x + ((y - x) * num) \div den
    ELSE x + ((y - x) * (-num)) \div (-den)

\* float tm = 0.0; float tx = 1000.0; and the locals not yet assigned
TraceEntryState ==
    /\ tm = 0
    /\ tx = FarT
    /\ hm = 0
    /\ hx = 0
    /\ tmid = 0
    /\ steps = 0
    /\ p = [written |-> FALSE, t |-> 0]
    /\ ret = 0
    /\ pRead = [read |-> FALSE, t |-> 0]
    /\ pc = "entry"

\* lines 190-193: the far height, the early return, the near height
TraceEntry ==
    /\ pc = "entry"
    /\ LET far == Map(ray, tx)
       IN  IF far > 0
           THEN /\ hx' = far
                /\ ret' = tx
                /\ pc' = "done"
                /\ UNCHANGED <<hm, tmid>>
           ELSE /\ hx' = far
                /\ hm' = Map(ray, tm)
                /\ tmid' = 0
                /\ pc' = "loop"
                /\ UNCHANGED ret
    /\ UNCHANGED <<ray, tm, tx, steps, p, pRead>>
    /\ UNCHANGED notTrace

\* the loop body with the two branches exchanged
TraceIterate_SwappedBranches ==
    /\ pc = "loop"
    /\ steps < NUM_STEPS
    /\ \E mid \in IF hm = hx THEN {tm, tx} ELSE {Mix(tm, tx, hm, hm - hx)} :
          /\ tmid' = mid
          /\ p' = [written |-> TRUE, t |-> mid]
          /\ IF Map(ray, mid) < 0
             THEN tm' = mid /\ hm' = Map(ray, mid) /\ UNCHANGED <<tx, hx>>
             ELSE tx' = mid /\ hx' = Map(ray, mid) /\ UNCHANGED <<tm, hm>>
    /\ steps' = steps + 1
    /\ UNCHANGED <<ray, ret, pRead, pc>>
    /\ UNCHANGED notTrace

\* lines 194-205: one iteration.  When hm = hx the quotient hm / (hm - hx)
\* is a division by zero, whose result the language leaves undefined.
TraceIterate ==
    /\ pc = "loop"
    /\ steps < NUM_STEPS
    /\ \E mid \in IF hm = hx THEN {tm, tx} ELSE {Mix(tm, tx, hm, hm - hx)} :
          /\ tmid' = mid
          /\ p' = [written |-> TRUE, t |-> mid]
          /\ IF Map(ray, mid) < 0
             THEN tx' = mid /\ hx' = Map(ray, mid) /\ UNCHANGED <<tm, hm>>
             ELSE tm' = mid /\ hm' = Map(ray, mid) /\ UNCHANGED <<tx, hx>>
    /\ steps' = steps + 1
    /\ UNCHANGED <<ray, ret, pRead, pc>>
    /\ UNCHANGED notTrace

\* line 206: return tmid
TraceReturn ==
    /\ pc = "loop"
    /\ steps = NUM_STEPS
    /\ ret' = tmid
    /\ pc' = "done"
    /\ UNCHANGED <<ray, tm, tx, hm, hx, tmid, steps, p, pRead>>
    /\ UNCHANGED notTrace

\* what a vec3 that was declared and never assigned may hold
UnassignedValues == {-1, 0, FarT}

\* main, lines 225-234: vec3 p; heightMapTracing(ori, dir, p); and then
\* dist = p - ori, getNormal(p, ...), getSeaColor(p, ...).  Reading a p that
\* was never assigned yields an undefined value.
MainUsesP ==
    /\ pc = "done"
    /\ \E v \in IF p.written THEN {p.t} ELSE UnassignedValues :
          pRead' = [read |-> TRUE, t |-> v]
    /\ pc' = "shaded"
    /\ UNCHANGED <<ray, tm, tx, hm, hx, tmid, steps, p, ret>>
    /\ UNCHANGED notTrace

TraceIdle ==
    /\ ray = [oriY |-> 250, dirY |-> -1, amp |-> 0, period |-> 7,
              phase |-> 0]
    /\ TraceEntryState

TraceStart == ray \in Rays /\ TraceEntryState

TraceNext ==
    \/ TraceEntry
    \/ TraceIterate
    \/ TraceReturn
    \/ MainUsesP

TraceInit == MainIdle /\ SceneIdle /\ TraceStart

TraceSpec == TraceInit /\ [][TraceNext]_vars

SceneSetupInit == MainIdle /\ SceneStart /\ TraceIdle

SceneSpec == SceneSetupInit /\ [][SceneNext]_vars

Init == MainInit /\ SceneIdle /\ TraceIdle

Next ==
    \/ Bootstrap
    \/ animate
    \/ ResizeListener
    \/ WindowResized
    \/ Tick

Spec == Init /\ [][Next]_vars

\* the browser is fair to the frame callback and to queued events
FairSpec ==
    /\ Spec
    /\ WF_vars(Bootstrap)
    /\ WF_vars(ResizeListener)
    /\ SF_vars(animate)

\* ----------------------------------------------------- fragment coordinates
\* gl_FragCoord.xy over the drawing buffer: pixel centres, doubled so that
\* i + 0.5 is the integer 2i + 1
FragCoords2(buffer) ==
    {<<2 * i + 1, 2 * j + 1>> : i \in 0..(buffer[1] - 1),
                                j \in 0..(buffer[2] - 1)}

\* fragment.glsl main: uv = gl_FragCoord.xy / uResolution.xy * 2 - 1, the y
\* component in thousandths, from a doubled coordinate
UvY(fc2, res) == (1000 * fc2[2]) \div res[2] - 1000

\* --------------------------------------------------------------- position
Index(seq, x) == CHOOSE i \in 1..Len(seq) : seq[i] = x

Count(seq, x) == Cardinality({i \in 1..Len(seq) : seq[i] = x})

\* ------------------------------------------------------------------ claims

\* C1: in every run of animate the elapsed time is read, then ocean.update
\* is called, then renderer.render; so every render draws with uTime equal to
\* the elapsed time read in that frame, and uTime never decreases from one
\* render to the next.
C1_FrameOrder ==
    /\ [](rendered.valid =>
            /\ Index(frameLog, "clock.getElapsedTime")
                 < Index(frameLog, "ocean.update")
            /\ Index(frameLog, "ocean.update")
                 < Index(frameLog, "renderer.render")
            /\ rendered.timeRead = clock.elapsedTime
            /\ rendered.uTime = rendered.timeRead)
    /\ [][rendered.valid => rendered'.uTime >= rendered.uTime]_vars

C1_Witness ==
    /\ lastEvent = "animate"
    /\ rendered.valid
    /\ rendered.uTime = 2

\* C2: when the resize listener finishes for a window of width w and height
\* h, camera.aspect is w / h, the renderer's size is (w, h) and uResolution
\* is (w, h).
C2_ResizePropagates ==
    lastEvent = "resize" =>
        /\ camera.aspect = Ratio(window.innerWidth, window.innerHeight)
        /\ camera.projection = camera.aspect
        /\ <<renderer.width, renderer.height>>
             = <<window.innerWidth, window.innerHeight>>
        /\ ocean.uResolution = <<window.innerWidth, window.innerHeight>>

C2_Witness ==
    /\ lastEvent = "resize"
    /\ rendered.valid
    /\ rendered.inner # <<window.innerWidth, window.innerHeight>>
    /\ rendered.aspect # camera.aspect

\* C4: every render call, before and after any resize, draws with
\* uResolution equal to the window's inner size at that moment, with the
\* camera's aspect equal to uResolution.x / uResolution.y and with the
\* renderer's size equal to uResolution.
C4_RenderConsistent ==
    rendered.valid =>
        /\ rendered.uResolution = rendered.inner
        /\ rendered.aspect
             = Ratio(rendered.uResolution[1], rendered.uResolution[2])
        /\ rendered.projection = rendered.aspect
        /\ rendered.size = rendered.uResolution

C4_Witness ==
    /\ lastEvent = "animate"
    /\ resizeHandled
    /\ rendered.valid
    /\ rendered.uResolution = <<1, 2>>

\* C7: every fragment the renderer draws has 0 <= gl_FragCoord.x <
\* uResolution.x and 0 <= gl_FragCoord.y < uResolution.y, so uv.y is within
\* [-1, 1], for every device pixel ratio.
C7_FragCoordWithinResolution ==
    rendered.valid =>
        \A fc \in FragCoords2(rendered.buffer) :
            /\ 0 <= fc[1] /\ fc[1] < 2 * rendered.uResolution[1]
            /\ 0 <= fc[2] /\ fc[2] < 2 * rendered.uResolution[2]
            /\ -1000 <= UvY(fc, rendered.uResolution)
            /\ UvY(fc, rendered.uResolution) <= 1000

\* C8: once animate has been called, exactly one frame callback is pending
\* between any two handlers, animate registers it before anything else, and
\* under a fair browser the render call happens again and again.
C8_FrameLoopLives ==
    /\ [](phase = "running" =>
            /\ rafPending = 1
            /\ frameLog[1] = "requestAnimationFrame"
            /\ Count(frameLog, "requestAnimationFrame") = 1)
    /\ []<>(lastEvent = "animate")

C8_Witness ==
    /\ lastEvent = "animate"
    /\ resizeHandled
    /\ rafPending = 1
    /\ now = MaxNow

\* C9: Ocean.update(time) sets uTime to time exactly and touches nothing
\* else; Ocean.resize() changes uResolution only; the material is never null
\* after construction and the quad is in the scene exactly once.
C9_OceanFrameEffect ==
    /\ [](phase = "running" =>
            /\ ocean.material # "null"
            /\ ocean.mesh = "oceanQuad"
            /\ Count(scene, ocean.mesh) = 1
            /\ ocean.uTime = clock.elapsedTime
            /\ \A t \in 0..MaxNow :
                 /\ OceanUpdate(ocean, t).uTime = t
                 /\ OceanUpdate(OceanUpdate(ocean, t), t)
                      = OceanUpdate(ocean, t)
                 /\ OceanUpdate(ocean, t) = [ocean EXCEPT !.uTime = t]
            /\ OceanResize(ocean, window).uTime = ocean.uTime
            /\ OceanResize(ocean, window)
                 = [ocean EXCEPT !.uResolution =
                      <<window.innerWidth, window.innerHeight>>])
    /\ [][lastEvent' = "animate" =>
            /\ ocean'.uResolution = ocean.uResolution
            /\ ocean'.mesh = ocean.mesh
            /\ ocean'.material = ocean.material
            /\ scene' = scene]_vars
    /\ [][lastEvent' = "resize" =>
            /\ ocean'.uTime = ocean.uTime
            /\ ocean'.mesh = ocean.mesh
            /\ ocean'.material = ocean.material
            /\ scene' = scene]_vars

C9_Witness ==
    /\ lastEvent = "resize"
    /\ ocean.uTime = 3
    /\ ocean.uResolution # rendered.uResolution

\* C3: the built-in water 'time' uniform equals the wall-clock time that has
\* passed over the frames in which SceneSetup.update was called, whatever
\* the frame durations.
C3_WaterTimeIsWallClock ==
    ~water.isNull => water.time = wall

\* the sun direction for an elevation and an azimuth in degrees: polar angle
\* 90 - elevation, azimuthal angle azimuth, on the unit sphere
SunDirection(elevation, azimuth) ==
    <<MulMilli(SinMilli(90 - elevation), SinMilli(azimuth)),
      CosMilli(90 - elevation),
      MulMilli(SinMilli(90 - elevation), CosMilli(azimuth))>>

\* C5: after init and after every later updateSunPosition(elevation,
\* azimuth), the sky's sunPosition, the water's sunDirection and the shared
\* sun vector are the same unit vector, the direction of that call's angles;
\* init leaves them at elevation 2, azimuth 180.
C5_SunVectorsAgree ==
    ~sky.isNull =>
        /\ sunArgs.called
        /\ sun = SunDirection(sunArgs.elevation, sunArgs.azimuth)
        /\ sky.sunPosition = sun
        /\ water.sunDirection = sun
        /\ environment = [isNull |-> FALSE, litBy |-> sun]
        /\ Abs(LengthSq(sun) - 1000000) <= 2000
        /\ lastCall.op = "init" =>
             /\ sunArgs.elevation = 2 /\ sunArgs.azimuth = 180
             /\ sun = <<0, 35, -999>>

C5_Witness ==
    /\ ~sky.isNull
    /\ lastCall.op = "updateSunPosition"
    /\ sunArgs.elevation = 30
    /\ sunArgs.azimuth = 90
    /\ water.sunDirection = <<866, 500, 0>>

\* C6: after the compile hook has run, the vertex shader is the Gerstner
\* prelude followed by the original source with its first
\* '#include <begin_vertex>' replaced by that include and the displacement
\* block, so it contains the displacement code; the shader has uTime = 0 and
\* is stored in material.userData.shader.
C6_DisplacementInjected ==
    lastCall.op = "compile" =>
        /\ ~waterShader.isNull
        /\ waterShader.uTime = 0
        /\ \E i \in 1..Len(waterShader.vertexShader) :
              waterShader.vertexShader[i] = "totalDisplacement"
        /\ \E i \in 1..Len(vertexSource) :
              /\ vertexSource[i] = BeginVertex
              /\ \A j \in 1..(i - 1) : vertexSource[j] # BeginVertex
              /\ waterShader.vertexShader
                   = GerstnerPrelude \o SubSeq(vertexSource, 1, i - 1)
                       \o <<BeginVertex>> \o DisplacementBlock
                       \o SubSeq(vertexSource, i + 1, Len(vertexSource))

\* the ray starts on or above the sea and ends below it
C10_Bracketed == Map(ray, 0) >= 0 /\ Map(ray, FarT) < 0

\* C10: when the height is >= 0 at t = 0 and < 0 at t = 1000, the loop runs
\* exactly NUM_STEPS iterations and returns the last tmid; in every
\* iteration tm <= tmid <= tx, the height at tm is >= 0, the height at tx is
\* < 0, and the interval [tm, tx] never grows.
C10_BracketKept ==
    /\ [](C10_Bracketed =>
            /\ tm <= tx
            /\ steps <= NUM_STEPS
            /\ pc # "entry" =>
                 /\ hm = Map(ray, tm) /\ hm >= 0
                 /\ hx = Map(ray, tx) /\ hx < 0
                 /\ tm <= tmid /\ tmid <= tx
            /\ pc = "done" => steps = NUM_STEPS /\ ret = tmid)
    /\ [][C10_Bracketed /\ pc = "loop" =>
            /\ tm <= tm' /\ tx' <= tx
            /\ tx' - tm' <= tx - tm
            /\ steps' # steps => (tm <= tmid' /\ tmid' <= tx)
            /\ pc' = "done" => steps = NUM_STEPS]_vars

C10_Witness ==
    /\ C10_Bracketed
    /\ pc = "done"
    /\ steps = NUM_STEPS
    /\ 0 < tm
    /\ tx < FarT
    /\ tm < tx
    /\ ret = tmid

\* C11: for every ray, the point p that main passes to getNormal and
\* getSeaColor has been assigned by heightMapTracing: p is written on every
\* path through it, the early return for hx > 0 included.
C11_PointAssigned ==
    /\ pc \in {"done", "shaded"} => p.written
    /\ pc = "shaded" => pRead.t = p.t

\* C12: after init and any sequence of update calls and compilations the
\* injected uTime never exceeds the built-in 'time' uniform: every update
\* adds 1/60 to 'time', and to uTime only if the compile hook has stored the
\* shader; every run of the hook installs a uTime of 0; so uTime is 1/60
\* times the number of update calls since the last compilation.
C12_InjectedTimeLags ==
    /\ [](~water.isNull =>
            /\ waterShader.uTime <= water.time
            /\ ~waterShader.isNull =>
                 waterShader.uTime = UpdateStep * updateCalls)
    /\ [][~water.isNull /\ lastCall'.op = "update" =>
            /\ water'.time = water.time + UpdateStep
            /\ ~waterShader.isNull =>
                 waterShader'.uTime = waterShader.uTime + UpdateStep
            /\ waterShader.isNull => waterShader' = waterShader]_vars
    /\ [][lastCall'.op = "compile" =>
            ~waterShader'.isNull /\ waterShader'.uTime = 0]_vars

C12_Witness ==
    /\ lastCall.op = "update"
    /\ ~waterShader.isNull
    /\ waterShader.uTime = 2 * UpdateStep
    /\ water.time = 3 * UpdateStep

\* the fields of the controller and of the scene it was given
controllerState == <<water, waterShader, sky, sun, environment,
                     setupChildren>>

\* C13 as stated: on a SceneSetup whose init has not been called, update()
\* changes no state and raises no error, and updateSunPosition ends in an
\* uncaught error and leaves the shared sun vector and scene.environment as
\* they were.
C13_UninitialisedCallsKeepState ==
    [][water.isNull /\ sky.isNull =>
         /\ lastCall'.op = "update" =>
              /\ lastCall'.error = "none"
              /\ controllerState' = controllerState
         /\ lastCall'.op = "updateSunPosition" =>
              /\ lastCall'.error = "TypeError"
              /\ sun' = sun
              /\ environment' = environment]_vars

\* C13, amended: on a SceneSetup whose init has not been called, update()
\* changes no state and raises no error; updateSunPosition ends in an
\* uncaught error after it has set the shared sun vector to the direction of
\* its arguments, and leaves scene.environment, the water and the sky as
\* they were.
C13_UninitialisedSunCallSetsSun ==
    [][water.isNull /\ sky.isNull =>
         /\ lastCall'.op = "update" =>
              /\ lastCall'.error = "none"
              /\ controllerState' = controllerState
         /\ lastCall'.op = "updateSunPosition" =>
              /\ lastCall'.error = "TypeError"
              /\ sun' = SunDirection(sunArgs'.elevation, sunArgs'.azimuth)
              /\ environment' = environment
              /\ <<water, waterShader, sky, setupChildren>>'
                   = <<water, waterShader, sky, setupChildren>>]_vars

C13_Witness ==
    /\ water.isNull
    /\ sky.isNull
    /\ lastCall = [op |-> "updateSunPosition", error |-> "TypeError"]
    /\ sun = <<0, 500, 866>>
    /\ environment.isNull

\* the elements of a sequence
Range(seq) == {seq[i] : i \in 1..Len(seq)}

\* C14: after bootstrap the scene's children are exactly the axis helper,
\* the test sphere and the ocean quad, and no frame callback or resize event
\* adds or removes one; a frame changes only the ocean's uTime and the
\* sphere's y position, a resize changes only the camera's aspect and
\* projection, the renderer's size and uResolution.
C14_SceneGraphKept ==
    /\ [](phase = "running" =>
            /\ Range(scene) = {"axis", "sphere", "oceanQuad"}
            /\ Len(scene) = 3
            /\ rendered.children = scene)
    /\ [][phase = "running" => scene' = scene]_vars
    /\ [][phase = "running" /\ lastEvent' = "animate" =>
            /\ ocean' = [ocean EXCEPT !.uTime = ocean'.uTime]
            /\ sphereY' = SinTimes5(ocean'.uTime)
            /\ camera' = camera
            /\ renderer' = renderer]_vars
    /\ [][phase = "running" /\ lastEvent' = "resize" =>
            /\ ocean' = [ocean EXCEPT !.uResolution = ocean'.uResolution]
            /\ sphereY' = sphereY
            /\ renderer'.pixelRatio = renderer.pixelRatio
            /\ clock' = clock
            /\ rendered' = rendered]_vars

C14_Witness ==
    /\ phase = "running"
    /\ lastEvent = "animate"
    /\ resizeHandled
    /\ sphereY = SinTimes5(1)
    /\ ocean.uTime = 1
    /\ Len(scene) = 3
    /\ scene[3] = "oceanQuad"

====
